---- MODULE Spec2Model ----
(***************************************************************************)
(* A model of dict2json: the lexer and the recursive-descent parser of     *)
(* src/src/pythonDictParser.ts, the conversion function pythonDictToJson,  *)
(* and the three editor command handlers of the extension.                 *)
(*                                                                         *)
(* Text is a sequence of one-character strings.  Positions are zero-based  *)
(* as in the source: the character at position p of text s is s[p + 1].    *)
(***************************************************************************)
EXTENDS Integers, Sequences, FiniteSets, TLC

VARIABLES
    input,      \* the text handed to pythonDictToJson
    indent,     \* the indent argument of pythonDictToJson
    pc,         \* where the call is: start, lexing, parsing, stringify, done, failed;
                \* in the editor, the command that ran last
    lexInput,   \* PythonDictLexer.input (the trimmed text)
    lexPos,     \* PythonDictLexer.pos
    tokens,     \* the tokens array built by tokenize
    result,     \* the value returned by PythonDictParser.parse
    output,     \* the JSON text returned by pythonDictToJson
    error,      \* the Error thrown, if any
    document,   \* the editor's document text
    selection,  \* the editor's selection: offsets [start, end)
    message     \* the notifications the commands have shown, oldest first

vars == <<input, indent, pc, lexInput, lexPos, tokens, result, output, error,
          document, selection, message>>

pipelineVars == <<input, indent, pc, lexInput, lexPos, tokens, result, output, error>>

editorVars == <<document, selection, message>>

(***************************************************************************)
(* Characters                                                              *)
(***************************************************************************)

\* The printable ASCII characters, code 32 at index 1 (the grave accent, which a TLA+
\* string cannot hold, by its code).
AsciiTable ==
    <<" ", "!", "\"", "#", "$", "%", "&", "'", "(", ")", "*", "+", ",", "-", ".", "/",
      "0", "1", "2", "3", "4", "5", "6", "7", "8", "9", ":", ";", "<", "=", ">", "?",
      "@", "A", "B", "C", "D", "E", "F", "G", "H", "I", "J", "K", "L", "M", "N", "O",
      "P", "Q", "R", "S", "T", "U", "V", "W", "X", "Y", "Z", "[", "\\", "]", "^", "_",
      "U+96", "a", "b", "c", "d", "e", "f", "g", "h", "i", "j", "k", "l", "m", "n", "o",
      "p", "q", "r", "s", "t", "u", "v", "w", "x", "y", "z", "{", "|", "}", "~">>

\* String.fromCharCode of a UTF-16 code unit.  A code unit with no TLA+ spelling is the
\* one-element "character" named U+<code>.
CodeUnit(n) ==
    IF n >= 32 /\ n <= 126 THEN AsciiTable[n - 31]
    ELSE IF n = 9 THEN "\t"
    ELSE IF n = 10 THEN "\n"
    ELSE IF n = 13 THEN "\r"
    ELSE IF n = 12 THEN "\f"
    ELSE "U+" \o ToString(n)

Digits == {"0", "1", "2", "3", "4", "5", "6", "7", "8", "9"}

LowerSeq ==
    <<"a", "b", "c", "d", "e", "f", "g", "h", "i", "j", "k", "l", "m",
      "n", "o", "p", "q", "r", "s", "t", "u", "v", "w", "x", "y", "z">>

UpperSeq ==
    <<"A", "B", "C", "D", "E", "F", "G", "H", "I", "J", "K", "L", "M",
      "N", "O", "P", "Q", "R", "S", "T", "U", "V", "W", "X", "Y", "Z">>

DigitSeq == <<"0", "1", "2", "3", "4", "5", "6", "7", "8", "9">>

Range(s) == {s[i] : i \in DOMAIN s}

Letters == Range(LowerSeq) \cup Range(UpperSeq)

\* /[0-9a-fA-F_]/, /[0-7_]/, /[01_]/, /[0-9_]/, /[0-9.]/, /[a-zA-Z_]/, /[a-zA-Z0-9_]/
HexDigitOrUnderscore ==
    Digits \cup {"a", "b", "c", "d", "e", "f", "A", "B", "C", "D", "E", "F", "_"}

OctDigitOrUnderscore == {"0", "1", "2", "3", "4", "5", "6", "7", "_"}

BinDigitOrUnderscore == {"0", "1", "_"}

DecDigitOrUnderscore == Digits \cup {"_"}

DigitOrDot == Digits \cup {"."}

IdentStart == Letters \cup {"_"}

IdentChar == Letters \cup Digits \cup {"_"}

\* The value of a digit character in a radix up to 36; 99 for any other character.
DigitValue(ch) ==
    IF \E i \in DOMAIN DigitSeq : DigitSeq[i] = ch
    THEN (CHOOSE i \in DOMAIN DigitSeq : DigitSeq[i] = ch) - 1
    ELSE IF \E i \in DOMAIN LowerSeq : LowerSeq[i] = ch
    THEN (CHOOSE i \in DOMAIN LowerSeq : LowerSeq[i] = ch) + 9
    ELSE IF \E i \in DOMAIN UpperSeq : UpperSeq[i] = ch
    THEN (CHOOSE i \in DOMAIN UpperSeq : UpperSeq[i] = ch) + 9
    ELSE 99

\* The white space and line terminators that String.prototype.trim, parseInt and
\* Number strip (those a text of this model can hold).
JsWhiteSpace == {" ", "\t", "\n", "\r", "\f", CodeUnit(11), CodeUnit(160), CodeUnit(65279)}

RECURSIVE TrimStart(_)
TrimStart(s) ==
    IF s # <<>> /\ Head(s) \in JsWhiteSpace THEN TrimStart(Tail(s)) ELSE s

RECURSIVE TrimEnd(_)
TrimEnd(s) ==
    IF s # <<>> /\ s[Len(s)] \in JsWhiteSpace THEN TrimEnd(SubSeq(s, 1, Len(s) - 1)) ELSE s

\* String.prototype.trim
trim(s) == TrimEnd(TrimStart(s))

\* The decimal digits of a natural number.
RECURSIVE NatToDigits(_)
NatToDigits(n) ==
    IF n < 10 THEN <<DigitSeq[n + 1]>>
    ELSE NatToDigits(n \div 10) \o <<DigitSeq[(n % 10) + 1]>>

RECURSIVE DigitsToNat(_)
DigitsToNat(s) ==
    IF s = <<>> THEN 0 ELSE DigitsToNat(SubSeq(s, 1, Len(s) - 1)) * 10 + DigitValue(s[Len(s)])

(***************************************************************************)
(* parseInt(string, radix), for radix 2, 8 and 16                          *)
(***************************************************************************)

RECURSIVE RadixPrefixValue(_, _, _, _)
\* The value of the longest prefix of s[i..] made of digits of the radix, from acc;
\* -1 when that prefix is empty and acc is -1.
RadixPrefixValue(s, i, radix, acc) ==
    IF i <= Len(s) /\ DigitValue(s[i]) < radix
    THEN RadixPrefixValue(s, i + 1, radix, (IF acc < 0 THEN 0 ELSE acc) * radix + DigitValue(s[i]))
    ELSE acc

\* What parseInt returns: NaN, or the integer (-1)^neg * v.
IntResult(nan, neg, v) == [nan |-> nan, neg |-> neg, v |-> v]

\* parseInt, after the sign and the 0x prefix: the digits
ParseIntDigits(v, neg) == IF v < 0 THEN IntResult(TRUE, FALSE, 0) ELSE IntResult(FALSE, neg, v)

\* parseInt, after the sign: an optional 0x before hexadecimal digits
ParseIntPrefix(s, radix, neg) ==
    IF radix = 16 /\ Len(s) >= 2 /\ s[1] = "0" /\ s[2] \in {"x", "X"}
    THEN ParseIntDigits(RadixPrefixValue(s, 3, radix, -1), neg)
    ELSE ParseIntDigits(RadixPrefixValue(s, 1, radix, -1), neg)

\* parseInt, after the leading white space: an optional sign
ParseIntSign(s, radix) ==
    IF s # <<>> /\ Head(s) \in {"+", "-"}
    THEN ParseIntPrefix(Tail(s), radix, Head(s) = "-")
    ELSE ParseIntPrefix(s, radix, FALSE)

parseInt(str, radix) == ParseIntSign(TrimStart(str), radix)

NaNText == <<"N", "a", "N">>

\* String(n) of what parseInt returned: the integers of this model are below 10^21,
\* where Number::toString writes every digit.
IntToText(n) ==
    IF n.nan THEN NaNText
    ELSE (IF n.neg /\ n.v # 0 THEN <<"-">> ELSE <<>>) \o NatToDigits(n.v)

StringOfParseInt(str, radix) == IntToText(parseInt(str, radix))

\* String.fromCharCode(n) of what parseInt returned: ToUint16 of the number, NaN as 0.
IntToChar(n) ==
    IF n.nan THEN CodeUnit(0)
    ELSE CodeUnit((IF n.neg THEN 0 - n.v ELSE n.v) % 65536)

CharOfParseInt(str) == IntToChar(parseInt(str, 16))

(***************************************************************************)
(* Errors and tokens                                                       *)
(***************************************************************************)

NoPos == -1

\* An Error, by the message that builds it: kind names the message, pos is the
\* position the message quotes (NoPos when it quotes none), ch the character or
\* token kind it quotes, expected the token kind expect() wanted.
Err(kind, pos, ch, expected) == [kind |-> kind, pos |-> pos, ch |-> ch, expected |-> expected]

NoError == Err("none", NoPos, "", "")

Token(type, value, pos) == [type |-> type, value |-> value, pos |-> pos]

TokenTypes ==
    {"STRING", "NUMBER", "TRUE", "FALSE", "NONE", "LBRACE", "RBRACE", "LBRACKET",
     "RBRACKET", "LPAREN", "RPAREN", "COLON", "COMMA", "EOF"}

(***************************************************************************)
(* PythonDictLexer                                                         *)
(***************************************************************************)

\* this.input[p]
At(s, p) == s[p + 1]

\* peek(): the character at pos, '' at the end
peek(s, pos) == IF pos < Len(s) THEN At(s, pos) ELSE ""

RECURSIVE SkipWhile(_, _, _)
\* while (pos < length && set.test(peek())) advance(): the position after the run
SkipWhile(s, pos, set) ==
    IF pos < Len(s) /\ At(s, pos) \in set THEN SkipWhile(s, pos + 1, set) ELSE pos

RECURSIVE SkipComment(_, _)
SkipComment(s, pos) ==
    IF pos < Len(s) /\ At(s, pos) # "\n" THEN SkipComment(s, pos + 1) ELSE pos

RECURSIVE skipWhitespaceAndComments(_, _)
skipWhitespaceAndComments(s, pos) ==
    IF pos < Len(s)
    THEN LET ch == peek(s, pos)
         IN  IF ch \in {" ", "\t", "\n", "\r"} THEN skipWhitespaceAndComments(s, pos + 1)
             ELSE IF ch = "#" THEN skipWhitespaceAndComments(s, SkipComment(s, pos))
             ELSE pos
    ELSE pos

\* The characters of s[from..to) that are not '_'  (if (ch !== '_') acc += ch)
RECURSIVE WithoutUnderscores(_, _, _)
WithoutUnderscores(s, from, to) ==
    IF from >= to THEN <<>>
    ELSE (IF At(s, from) = "_" THEN <<>> ELSE <<At(s, from)>>) \o WithoutUnderscores(s, from + 1, to)

\* What a scanning function returns: the error thrown (NoError when it returns), the
\* position it leaves the lexer at, and its value.
Scan(err, pos, value) == [err |-> err, pos |-> pos, value |-> value]

\* readEscapeSequence: pos is at the backslash; value is the decoded character.
readEscapeSequence(s, pos, quote) ==
    IF pos + 1 >= Len(s)
    THEN Scan(Err("EndInEscape", NoPos, "", ""), pos + 1, "")
    ELSE LET ch == At(s, pos + 1)
             p == pos + 2
         IN  CASE ch = "\\" -> Scan(NoError, p, "\\")
               [] ch = "/" -> Scan(NoError, p, "/")
               [] ch = "n" -> Scan(NoError, p, "\n")
               [] ch = "r" -> Scan(NoError, p, "\r")
               [] ch = "t" -> Scan(NoError, p, "\t")
               [] ch = "b" -> Scan(NoError, p, CodeUnit(8))
               [] ch = "f" -> Scan(NoError, p, "\f")
               [] ch = "'" -> Scan(NoError, p, "'")
               [] ch = "\"" -> Scan(NoError, p, "\"")
               [] ch = "0" -> Scan(NoError, p, CodeUnit(0))
               [] ch = "u" ->
                    IF p + 4 > Len(s)
                    THEN Scan(Err("EndInUnicodeEscape", NoPos, "", ""), Len(s), "")
                    ELSE Scan(NoError, p + 4, CharOfParseInt(SubSeq(s, p + 1, p + 4)))
               [] ch = "x" ->
                    IF p + 2 > Len(s)
                    THEN Scan(Err("EndInHexEscape", NoPos, "", ""), Len(s), "")
                    ELSE Scan(NoError, p + 2, CharOfParseInt(SubSeq(s, p + 1, p + 2)))
               [] OTHER -> Scan(NoError, p, ch)

RECURSIVE ReadTripleBody(_, _, _, _, _), ReadStringBody(_, _, _, _, _)

\* result += this.readEscapeSequence(quote), then the triple-quoted loop goes on
TripleAfterEscape(s, e, quote, startPos, acc) ==
    IF e.err # NoError THEN Scan(e.err, e.pos, <<>>)
    ELSE ReadTripleBody(s, e.pos, quote, startPos, Append(acc, e.value))

\* The loop of a triple-quoted string, from pos with acc read so far.
ReadTripleBody(s, pos, quote, startPos, acc) ==
    IF pos < Len(s)
    THEN IF /\ At(s, pos) = quote
            /\ pos + 2 < Len(s)
            /\ At(s, pos + 1) = quote
            /\ At(s, pos + 2) = quote
         THEN Scan(NoError, pos + 3, acc)
         ELSE IF At(s, pos) = "\\"
         THEN TripleAfterEscape(s, readEscapeSequence(s, pos, quote), quote, startPos, acc)
         ELSE ReadTripleBody(s, pos + 1, quote, startPos, Append(acc, At(s, pos)))
    ELSE Scan(Err("UnterminatedTripleQuotedString", startPos, "", ""), pos, <<>>)

\* result += this.readEscapeSequence(quote), then the single-line loop goes on
StringAfterEscape(s, e, quote, startPos, acc) ==
    IF e.err # NoError THEN Scan(e.err, e.pos, <<>>)
    ELSE ReadStringBody(s, e.pos, quote, startPos, Append(acc, e.value))

\* The loop of a single-line string, from pos with acc read so far.
ReadStringBody(s, pos, quote, startPos, acc) ==
    IF pos < Len(s)
    THEN IF At(s, pos) = quote THEN Scan(NoError, pos + 1, acc)
         ELSE IF At(s, pos) = "\\"
         THEN StringAfterEscape(s, readEscapeSequence(s, pos, quote), quote, startPos, acc)
         ELSE ReadStringBody(s, pos + 1, quote, startPos, Append(acc, At(s, pos)))
    ELSE Scan(Err("UnterminatedString", startPos, "", ""), pos, <<>>)

\* readString: pos is just after the opening quote, which the caller consumed.
readString(s, pos, quote) ==
    IF pos + 2 < Len(s) /\ At(s, pos) = quote /\ At(s, pos + 1) = quote
    THEN ReadTripleBody(s, pos + 2, quote, pos, <<>>)
    ELSE ReadStringBody(s, pos, quote, pos, <<>>)

\* The end of readNumber: the check of the text read
NumberRead(start, pos, text) ==
    IF text = <<>> \/ text = <<"-">>
    THEN Scan(Err("InvalidNumber", start, "", ""), pos, <<>>)
    ELSE Scan(NoError, pos, text)

\* The digits of the exponent, from pos to the end q of their run
ExponentDigits(s, start, pos, q, text) ==
    NumberRead(start, q, text \o WithoutUnderscores(s, pos, q))

\* The exponent: 'e' or 'E', an optional sign, a run of digits and '_'
ReadExponent(s, start, pos, text) ==
    IF peek(s, pos) \in {"e", "E"}
    THEN IF peek(s, pos + 1) \in {"+", "-"}
         THEN ExponentDigits(s, start, pos + 2, SkipWhile(s, pos + 2, DecDigitOrUnderscore),
                             text \o <<At(s, pos), At(s, pos + 1)>>)
         ELSE ExponentDigits(s, start, pos + 1, SkipWhile(s, pos + 1, DecDigitOrUnderscore),
                             text \o <<At(s, pos)>>)
    ELSE NumberRead(start, pos, text)

\* The digits of the fraction, from pos (after the '.') to the end q of their run
FractionDigits(s, start, pos, q, text) ==
    ReadExponent(s, start, q, text \o <<".">> \o WithoutUnderscores(s, pos, q))

\* The decimal point, taken only when a digit follows it
ReadFraction(s, start, pos, text) ==
    IF peek(s, pos) = "." /\ pos + 1 < Len(s) /\ At(s, pos + 1) \in Digits
    THEN FractionDigits(s, start, pos + 1, SkipWhile(s, pos + 1, DecDigitOrUnderscore), text)
    ELSE ReadExponent(s, start, pos, text)

\* The digits of the integer part, from pos to the end q of their run
IntegerDigits(s, start, pos, q, text) ==
    ReadFraction(s, start, q, text \o WithoutUnderscores(s, pos, q))

\* The run of digits and '_' of the integer part
ReadInteger(s, start, pos, text) ==
    IntegerDigits(s, start, pos, SkipWhile(s, pos, DecDigitOrUnderscore), text)

\* The digits after 0x, 0o or 0b, from pos to the end q of their run: the token's text
\* is the decimal text of their value
RadixDigits(s, pos, q, radix) ==
    Scan(NoError, q, StringOfParseInt(WithoutUnderscores(s, pos, q), radix))

\* After a leading '0', at pos: a base prefix, or the rest of a decimal literal
ReadAfterZero(s, start, pos, text) ==
    IF peek(s, pos) \in {"x", "X"}
    THEN RadixDigits(s, pos + 1, SkipWhile(s, pos + 1, HexDigitOrUnderscore), 16)
    ELSE IF peek(s, pos) \in {"o", "O"}
    THEN RadixDigits(s, pos + 1, SkipWhile(s, pos + 1, OctDigitOrUnderscore), 8)
    ELSE IF peek(s, pos) \in {"b", "B"}
    THEN RadixDigits(s, pos + 1, SkipWhile(s, pos + 1, BinDigitOrUnderscore), 2)
    ELSE ReadInteger(s, start, pos, text)

\* The integer part, after the optional sign
ReadUnsigned(s, start, pos, text) ==
    IF peek(s, pos) = "0"
    THEN ReadAfterZero(s, start, pos + 1, Append(text, "0"))
    ELSE ReadInteger(s, start, pos, text)

\* readNumber: pos is at the first character of the literal.
readNumber(s, pos) ==
    IF peek(s, pos) = "-"
    THEN ReadUnsigned(s, pos, pos + 1, <<"-">>)
    ELSE ReadUnsigned(s, pos, pos, <<>>)

\* readIdentifier
IdentifierRun(s, pos, q) == Scan(NoError, q, SubSeq(s, pos + 1, q))

readIdentifier(s, pos) == IdentifierRun(s, pos, SkipWhile(s, pos, IdentChar))

\* One pass of the loop of tokenize: kind is "eof" (the EOF token was pushed and the
\* loop left), "token" (one token pushed) or "error" (thrown); pos is where the
\* lexer stands afterwards.
Iter(kind, tok, pos, err) == [kind |-> kind, tok |-> tok, pos |-> pos, err |-> err]

NoToken == Token("EOF", <<>>, NoPos)

Punctuation ==
    [c \in {"{", "}", "[", "]", "(", ")", ":", ","} |->
        CASE c = "{" -> "LBRACE"
          [] c = "}" -> "RBRACE"
          [] c = "[" -> "LBRACKET"
          [] c = "]" -> "RBRACKET"
          [] c = "(" -> "LPAREN"
          [] c = ")" -> "RPAREN"
          [] c = ":" -> "COLON"
          [] c = "," -> "COMMA"]

\* The token an identifier becomes.
IdentifierToken(ident, startPos) ==
    CASE ident \in {<<"T", "r", "u", "e">>, <<"t", "r", "u", "e">>} ->
            Token("TRUE", <<"t", "r", "u", "e">>, startPos)
      [] ident \in {<<"F", "a", "l", "s", "e">>, <<"f", "a", "l", "s", "e">>} ->
            Token("FALSE", <<"f", "a", "l", "s", "e">>, startPos)
      [] ident \in {<<"N", "o", "n", "e">>, <<"n", "u", "l", "l">>} ->
            Token("NONE", <<"n", "u", "l", "l">>, startPos)
      [] OTHER -> Token("STRING", ident, startPos)

\* A lexer that stamps every token it reads with offset 0 instead of startPos.
PushedAtOffsetZero(type, r, startPos) ==
    IF r.err # NoError THEN Iter("error", NoToken, r.pos, r.err)
    ELSE Iter("token", Token(type, r.value, 0), r.pos, NoError)

\* tokens.push({ type: type, value: the value read, pos: startPos }), unless the read threw
Pushed(type, r, startPos) ==
    IF r.err # NoError THEN Iter("error", NoToken, r.pos, r.err)
    ELSE Iter("token", Token(type, r.value, startPos), r.pos, NoError)

PushedIdentifier(r, startPos) ==
    Iter("token", IdentifierToken(r.value, startPos), r.pos, NoError)

\* A lexer that takes a '-' for a number only before a digit.
MinusBeforeDigit(s, pos) == pos + 1 < Len(s) /\ At(s, pos + 1) \in Digits

\* Whether tokenize lets a '-' at pos start a number.
MinusStartsNumber(s, pos) == pos + 1 < Len(s) /\ At(s, pos + 1) \in DigitOrDot

\* The number branch of tokenize, at a '-' or a digit.
NumberBranch(s, startPos, ch) ==
    IF ch = "-" /\ ~MinusStartsNumber(s, startPos)
    THEN Iter("error", NoToken, startPos, Err("UnexpectedCharacter", startPos, "-", ""))
    ELSE Pushed("NUMBER", readNumber(s, startPos), startPos)

\* The switch of tokenize on the character ch at startPos.
ScanCharacter(s, startPos, ch) ==
    IF ch \in DOMAIN Punctuation
    THEN Iter("token", Token(Punctuation[ch], <<ch>>, startPos), startPos + 1, NoError)
    ELSE IF ch \in {"'", "\""}
    THEN Pushed("STRING", readString(s, startPos + 1, ch), startPos)
    ELSE IF ch = "-" \/ ch \in Digits
    THEN NumberBranch(s, startPos, ch)
    ELSE IF ch \in IdentStart
    THEN PushedIdentifier(readIdentifier(s, startPos), startPos)
    ELSE Iter("error", NoToken, startPos, Err("UnexpectedCharacter", startPos, ch, ""))

\* One pass of the loop, after skipWhitespaceAndComments left the lexer at startPos;
\* EOF is stamped eofPos.
PassAt(s, startPos, eofPos) ==
    IF startPos >= Len(s)
    THEN Iter("eof", Token("EOF", <<>>, eofPos), startPos, NoError)
    ELSE ScanCharacter(s, startPos, peek(s, startPos))

\* A lexer that stamps EOF with the position it had before skipping the trailing
\* comment.
EofBeforeSkip(s, pos0, startPos) == PassAt(s, startPos, pos0)

\* One pass from pos0, where skipWhitespaceAndComments stops at startPos: EOF carries
\* this.pos.
PassFrom(s, pos0, startPos) == PassAt(s, startPos, startPos)

tokenizeIter(s, pos0) == PassFrom(s, pos0, skipWhitespaceAndComments(s, pos0))

RECURSIVE TokenizeFrom(_, _, _)

\* The loop of tokenize after one pass
AfterPass(s, it, toks) ==
    CASE it.kind = "error" -> [err |-> it.err, tokens |-> toks]
      [] it.kind = "eof" -> [err |-> NoError, tokens |-> Append(toks, it.tok)]
      [] OTHER -> TokenizeFrom(s, it.pos, Append(toks, it.tok))

TokenizeFrom(s, pos, toks) == AfterPass(s, tokenizeIter(s, pos), toks)

\* tokenize(): the tokens array, or the error thrown
tokenize(s) == TokenizeFrom(s, 0, <<>>)

(***************************************************************************)
(* Number(text) and Number::toString                                       *)
(*                                                                         *)
(* A Number is NaN, an infinity, or (-1)^neg * digits * 10^exp, with       *)
(* digits a decimal digit string without leading or trailing zeros (empty  *)
(* for zero).  Up to 15 significant digits and between 1e-308 and the      *)
(* largest double this is the double's shortest round-trip decimal, which  *)
(* is what Number::toString prints.                                        *)
(***************************************************************************)

Num(nan, inf, neg, digits, exp) ==
    [nan |-> nan, inf |-> inf, neg |-> neg, digits |-> digits, exp |-> exp]

NaN == Num(TRUE, FALSE, FALSE, <<>>, 0)

Zero(neg) == Num(FALSE, FALSE, neg, <<>>, 0)

Infinity(neg) == Num(FALSE, TRUE, neg, <<>>, 0)

RECURSIVE StripLeadingZeros(_)
StripLeadingZeros(d) ==
    IF d # <<>> /\ Head(d) = "0" THEN StripLeadingZeros(Tail(d)) ELSE d

RECURSIVE TrailingZeros(_)
TrailingZeros(d) ==
    IF d # <<>> /\ d[Len(d)] = "0" THEN 1 + TrailingZeros(SubSeq(d, 1, Len(d) - 1)) ELSE 0

RECURSIVE DigitsLess(_, _)
\* a < b, for digit strings of the same length
DigitsLess(a, b) ==
    IF a = <<>> THEN FALSE
    ELSE IF Head(a) # Head(b) THEN DigitValue(Head(a)) < DigitValue(Head(b))
    ELSE DigitsLess(Tail(a), Tail(b))

RECURSIVE Repeat(_, _)
\* n times the character ch
Repeat(ch, n) == IF n <= 0 THEN <<>> ELSE <<ch>> \o Repeat(ch, n - 1)

Zeros(n) == Repeat("0", n)

\* The 17 significant digits of the largest double, 1.7976931348623157e308.
MaxDoubleDigits ==
    <<"1", "7", "9", "7", "6", "9", "3", "1", "3", "4", "8", "6", "2", "3", "1", "5", "7">>

MaxDoubleExp == 308

MinDoubleExp == -324

\* The decimal exponent of the first digit of d * 10^e
SciExp(d, e) == Len(d) + e - 1

\* d as 17 significant digits
Padded(d) ==
    IF Len(d) < Len(MaxDoubleDigits)
    THEN d \o Zeros(Len(MaxDoubleDigits) - Len(d))
    ELSE SubSeq(d, 1, Len(MaxDoubleDigits))

\* The double nearest to d * 10^e, for d without leading or trailing zeros
RoundNormal(neg, d, e) ==
    IF d = <<>> THEN Zero(neg)
    ELSE IF \/ SciExp(d, e) > MaxDoubleExp
            \/ SciExp(d, e) = MaxDoubleExp /\ DigitsLess(MaxDoubleDigits, Padded(d))
    THEN Infinity(neg)
    ELSE IF SciExp(d, e) < MinDoubleExp THEN Zero(neg)
    ELSE Num(FALSE, FALSE, neg, d, e)

RoundStripped(neg, d, tz, e) == RoundNormal(neg, SubSeq(d, 1, Len(d) - tz), e + tz)

RoundLeading(neg, d, e) == RoundStripped(neg, d, TrailingZeros(d), e)

\* The double nearest to digits * 10^exp
RoundToDouble(neg, digits, exp) == RoundLeading(neg, StripLeadingZeros(digits), exp)

InfinityText == <<"I", "n", "f", "i", "n", "i", "t", "y">>

\* The exponent digits s[eStart..eEnd) end the literal
DecimalWithExponent(s, neg, int, frac, eNeg, eStart, eEnd) ==
    IF eEnd = eStart \/ eEnd # Len(s) THEN NaN
    ELSE RoundToDouble(neg, int \o frac,
                       (IF eNeg THEN 0 - DigitsToNat(SubSeq(s, eStart + 1, eEnd))
                        ELSE DigitsToNat(SubSeq(s, eStart + 1, eEnd))) - Len(frac))

\* The exponent part, at position p, after the integer digits int and the fraction
\* digits frac
DecimalExponent(s, neg, int, frac, p) ==
    IF int = <<>> /\ frac = <<>> THEN NaN
    ELSE IF peek(s, p) \in {"e", "E"}
    THEN IF peek(s, p + 1) \in {"+", "-"}
         THEN DecimalWithExponent(s, neg, int, frac, peek(s, p + 1) = "-", p + 2,
                                  SkipWhile(s, p + 2, Digits))
         ELSE DecimalWithExponent(s, neg, int, frac, FALSE, p + 1,
                                  SkipWhile(s, p + 1, Digits))
    ELSE IF p # Len(s) THEN NaN
    ELSE RoundToDouble(neg, int \o frac, 0 - Len(frac))

\* The fraction digits s[iEnd + 1..fEnd), after the '.' at iEnd
DecimalFraction(s, neg, iEnd, fEnd) ==
    DecimalExponent(s, neg, SubSeq(s, 1, iEnd), SubSeq(s, iEnd + 2, fEnd), fEnd)

\* The integer digits s[0..iEnd)
DecimalInteger(s, neg, iEnd) ==
    IF peek(s, iEnd) = "."
    THEN DecimalFraction(s, neg, iEnd, SkipWhile(s, iEnd + 1, Digits))
    ELSE DecimalExponent(s, neg, SubSeq(s, 1, iEnd), <<>>, iEnd)

\* A StrDecimalLiteral without its sign.
UnsignedDecimal(s, neg) ==
    IF s = InfinityText THEN Infinity(neg)
    ELSE DecimalInteger(s, neg, SkipWhile(s, 0, Digits))

\* A NonDecimalIntegerLiteral: every character after the prefix a digit of the radix.
NonDecimalInteger(body, radix) ==
    IF body = <<>> \/ \E i \in DOMAIN body : DigitValue(body[i]) >= radix THEN NaN
    ELSE RoundToDouble(FALSE, NatToDigits(RadixPrefixValue(body, 1, radix, 0)), 0)

\* StringToNumber of a text without white space around it
NumberOfTrimmed(s) ==
    IF s = <<>> THEN Zero(FALSE)
    ELSE IF Len(s) >= 2 /\ s[1] = "0" /\ s[2] \in {"x", "X"}
    THEN NonDecimalInteger(SubSeq(s, 3, Len(s)), 16)
    ELSE IF Len(s) >= 2 /\ s[1] = "0" /\ s[2] \in {"o", "O"}
    THEN NonDecimalInteger(SubSeq(s, 3, Len(s)), 8)
    ELSE IF Len(s) >= 2 /\ s[1] = "0" /\ s[2] \in {"b", "B"}
    THEN NonDecimalInteger(SubSeq(s, 3, Len(s)), 2)
    ELSE IF Head(s) \in {"+", "-"} THEN UnsignedDecimal(Tail(s), Head(s) = "-")
    ELSE UnsignedDecimal(s, FALSE)

\* Number(text): StringToNumber
Number(text) == NumberOfTrimmed(trim(text))

isNaN(num) == num.nan

NullText == <<"n", "u", "l", "l">>

\* The exponent part of Number::toString, for the decimal exponent e
ExponentText(e) ==
    <<"e">> \o (IF e < 0 THEN <<"-">> ELSE <<"+">>) \o NatToDigits(IF e < 0 THEN 0 - e ELSE e)

\* Number::toString of the digits d with the decimal point after the n-th
DigitsToString(d, n) ==
    IF Len(d) <= n /\ n <= 21 THEN d \o Zeros(n - Len(d))
    ELSE IF 0 < n /\ n <= 21 THEN SubSeq(d, 1, n) \o <<".">> \o SubSeq(d, n + 1, Len(d))
    ELSE IF -6 < n /\ n <= 0 THEN <<"0", ".">> \o Zeros(0 - n) \o d
    ELSE IF Len(d) = 1 THEN d \o ExponentText(n - 1)
    ELSE <<d[1], ".">> \o SubSeq(d, 2, Len(d)) \o ExponentText(n - 1)

\* Number::toString of a finite number
NumberToString(num) ==
    IF num.digits = <<>> THEN <<"0">>
    ELSE (IF num.neg THEN <<"-">> ELSE <<>>)
            \o DigitsToString(num.digits, Len(num.digits) + num.exp)

(***************************************************************************)
(* Values: what parse returns                                              *)
(*                                                                         *)
(* t is the variant: null, bool, number, string, array or object.  An      *)
(* object holds its own properties in the order the engine enumerates      *)
(* them: keys[i] is the key of the value items[i].                         *)
(***************************************************************************)

Value(t, b, num, s, keys, items) ==
    [t |-> t, b |-> b, num |-> num, s |-> s, keys |-> keys, items |-> items]

Undefined == Value("undefined", FALSE, NaN, <<>>, <<>>, <<>>)

Null == Value("null", FALSE, NaN, <<>>, <<>>, <<>>)

Bool(b) == Value("bool", b, NaN, <<>>, <<>>, <<>>)

NumberValue(num) == Value("number", FALSE, num, <<>>, <<>>, <<>>)

String(s) == Value("string", FALSE, NaN, s, <<>>, <<>>)

Array(items) == Value("array", FALSE, NaN, <<>>, <<>>, items)

Object(keys, items) == Value("object", FALSE, NaN, <<>>, keys, items)

\* The largest array index, 2^32 - 2, in digits.
MaxArrayIndexDigits == <<"4", "2", "9", "4", "9", "6", "7", "2", "9", "4">>

\* Whether a property key is an array index: the canonical decimal text of an
\* integer from 0 to 2^32 - 2.
IsArrayIndex(key) ==
    /\ key # <<>>
    /\ \A i \in DOMAIN key : key[i] \in Digits
    /\ key = <<"0">> \/ key[1] # "0"
    /\ \/ Len(key) < Len(MaxArrayIndexDigits)
       \/ Len(key) = Len(MaxArrayIndexDigits) /\ ~DigitsLess(MaxArrayIndexDigits, key)

\* a < b, for array indices
IndexLess(a, b) == Len(a) < Len(b) \/ (Len(a) = Len(b) /\ DigitsLess(a, b))

ProtoKey == <<"_", "_", "p", "r", "o", "t", "o", "_", "_">>

InsertAt(seq, i, x) == SubSeq(seq, 1, i - 1) \o <<x>> \o SubSeq(seq, i, Len(seq))

\* Where a new own property goes in the enumeration order of an ordinary object:
\* array indices first, ascending, then the other keys in the order they were created.
NewKeyPlace(keys, key) ==
    IF IsArrayIndex(key)
    THEN 1 + Cardinality({i \in DOMAIN keys : IsArrayIndex(keys[i]) /\ IndexLess(keys[i], key)})
    ELSE Len(keys) + 1

\* CreateDataProperty(obj, key, value): a new own property, or a new value for the
\* own property the object has
DefineProperty(obj, key, value) ==
    IF \E i \in DOMAIN obj.keys : obj.keys[i] = key
    THEN Object(obj.keys,
                [i \in DOMAIN obj.items |-> IF obj.keys[i] = key THEN value ELSE obj.items[i]])
    ELSE Object(InsertAt(obj.keys, NewKeyPlace(obj.keys, key), key),
                InsertAt(obj.items, NewKeyPlace(obj.keys, key), value))

\* result[key] = value, on the plain object parseDict builds.  Assigning __proto__
\* calls the setter of Object.prototype, which creates no own property.
SetProperty(obj, key, value) ==
    IF key = ProtoKey THEN obj ELSE DefineProperty(obj, key, value)

(***************************************************************************)
(* PythonDictParser                                                        *)
(***************************************************************************)

\* What a parse function returns: the error thrown (NoError when it returns), the
\* parser's pos afterwards, and the value.
Parsed(err, pos, val) == [err |-> err, pos |-> pos, val |-> val]

\* current(): this.tokens[this.pos]
current(toks, pos) == toks[pos + 1]

\* peek(): the type of the current token
peekType(toks, pos) == current(toks, pos).type

\* expect(type)
expect(toks, pos, type) ==
    LET token == current(toks, pos)
    IN  IF token.type # type
        THEN Parsed(Err("Expected", token.pos, token.type, type), pos, Undefined)
        ELSE Parsed(NoError, pos + 1, Undefined)

UnexpectedToken(toks, pos) ==
    Parsed(Err("UnexpectedToken", current(toks, pos).pos, peekType(toks, pos), ""), pos, Undefined)

\* What a parse function returns after an expect(type) e: the error of e, else val
Expected(e, val) == IF e.err # NoError THEN e ELSE Parsed(NoError, e.pos, val)

parseString(toks, pos) ==
    Expected(expect(toks, pos, "STRING"), String(current(toks, pos).value))

\* const num = Number(token.value); if (isNaN(num)) throw ...; return num
CheckedNumber(token, num, pos) ==
    IF isNaN(num)
    THEN Parsed(Err("InvalidNumberValue", token.pos, "NUMBER", ""), pos, Undefined)
    ELSE Parsed(NoError, pos, NumberValue(num))

NumberAfterExpect(toks, pos, e) ==
    IF e.err # NoError THEN e
    ELSE CheckedNumber(current(toks, pos), Number(current(toks, pos).value), e.pos)

parseNumber(toks, pos) == NumberAfterExpect(toks, pos, expect(toks, pos, "NUMBER"))

\* The switch of parseDictKey on the current token: val is the key, as a string value
DictKeyOf(token, pos) ==
    CASE token.type \in {"STRING", "NUMBER"} -> Parsed(NoError, pos + 1, String(token.value))
      [] token.type = "TRUE" -> Parsed(NoError, pos + 1, String(<<"t", "r", "u", "e">>))
      [] token.type = "FALSE" -> Parsed(NoError, pos + 1, String(<<"f", "a", "l", "s", "e">>))
      [] token.type = "NONE" -> Parsed(NoError, pos + 1, String(NullText))
      [] OTHER -> Parsed(Err("InvalidDictKey", token.pos, token.type, ""), pos, Undefined)

parseDictKey(toks, pos) == DictKeyOf(current(toks, pos), pos)

RECURSIVE parseValue(_, _), parseDict(_, _), DictLoop(_, _, _), parseList(_, _),
          ListLoop(_, _, _), parseTuple(_, _), TupleLoop(_, _, _)

\* The switch of parseValue on the type of the current token
ValueOf(toks, pos, type) ==
    CASE type = "LBRACE" -> parseDict(toks, pos)
      [] type = "LBRACKET" -> parseList(toks, pos)
      [] type = "LPAREN" -> parseTuple(toks, pos)
      [] type = "STRING" -> parseString(toks, pos)
      [] type = "NUMBER" -> parseNumber(toks, pos)
      [] type = "TRUE" -> Parsed(NoError, pos + 1, Bool(TRUE))
      [] type = "FALSE" -> Parsed(NoError, pos + 1, Bool(FALSE))
      [] type = "NONE" -> Parsed(NoError, pos + 1, Null)
      [] OTHER -> UnexpectedToken(toks, pos)

parseValue(toks, pos) == ValueOf(toks, pos, peekType(toks, pos))

\* parseDict after const value = this.parseValue(): result[key] = value, then a comma
\* and another pass of the loop, or the expect(RBRACE) after the loop
DictAfterValue(toks, key, v, obj) ==
    IF v.err # NoError THEN v
    ELSE IF peekType(toks, v.pos) = "COMMA"
    THEN DictLoop(toks, v.pos + 1, SetProperty(obj, key, v.val))
    ELSE Expected(expect(toks, v.pos, "RBRACE"), SetProperty(obj, key, v.val))

\* parseDict after this.expect(TokenType.COLON)
DictAfterColon(toks, key, c, obj) ==
    IF c.err # NoError THEN c
    ELSE DictAfterValue(toks, key, parseValue(toks, c.pos), obj)

\* parseDict after const key = this.parseDictKey()
DictAfterKey(toks, k, obj) ==
    IF k.err # NoError THEN k
    ELSE DictAfterColon(toks, k.val.s, expect(toks, k.pos, "COLON"), obj)

\* The while (true) loop of parseDict and the expect(RBRACE) after it.
DictLoop(toks, pos, obj) ==
    IF peekType(toks, pos) = "RBRACE"
    THEN Expected(expect(toks, pos, "RBRACE"), obj)
    ELSE DictAfterKey(toks, parseDictKey(toks, pos), obj)

\* parseDict after this.expect(TokenType.LBRACE)
DictAfterOpen(toks, open) ==
    IF open.err # NoError THEN open
    ELSE IF peekType(toks, open.pos) = "RBRACE"
    THEN Parsed(NoError, open.pos + 1, Object(<<>>, <<>>))
    ELSE DictLoop(toks, open.pos, Object(<<>>, <<>>))

parseDict(toks, pos) == DictAfterOpen(toks, expect(toks, pos, "LBRACE"))

\* parseList after result.push(this.parseValue()): a comma and another pass of the
\* loop, or the expect(RBRACKET) after the loop
ListAfterValue(toks, v, items) ==
    IF v.err # NoError THEN v
    ELSE IF peekType(toks, v.pos) = "COMMA"
    THEN ListLoop(toks, v.pos + 1, Append(items, v.val))
    ELSE Expected(expect(toks, v.pos, "RBRACKET"), Array(Append(items, v.val)))

\* A parseList without the check that lets a trailing comma through: after a comma it
\* requires another element.
ListLoopWithoutTrailingComma(toks, pos, items) ==
    ListAfterValue(toks, parseValue(toks, pos), items)

\* The while (true) loop of parseList and the expect(RBRACKET) after it.
ListLoop(toks, pos, items) ==
    IF peekType(toks, pos) = "RBRACKET"
    THEN Expected(expect(toks, pos, "RBRACKET"), Array(items))
    ELSE ListAfterValue(toks, parseValue(toks, pos), items)

\* parseList after this.expect(TokenType.LBRACKET)
ListAfterOpen(toks, open) ==
    IF open.err # NoError THEN open
    ELSE IF peekType(toks, open.pos) = "RBRACKET"
    THEN Parsed(NoError, open.pos + 1, Array(<<>>))
    ELSE ListLoop(toks, open.pos, <<>>)

parseList(toks, pos) == ListAfterOpen(toks, expect(toks, pos, "LBRACKET"))

\* parseTuple after result.push(this.parseValue())
TupleAfterValue(toks, v, items) ==
    IF v.err # NoError THEN v
    ELSE IF peekType(toks, v.pos) = "COMMA"
    THEN TupleLoop(toks, v.pos + 1, Append(items, v.val))
    ELSE Expected(expect(toks, v.pos, "RPAREN"), Array(Append(items, v.val)))

\* The while (true) loop of parseTuple and the expect(RPAREN) after it.
TupleLoop(toks, pos, items) ==
    IF peekType(toks, pos) = "RPAREN"
    THEN Expected(expect(toks, pos, "RPAREN"), Array(items))
    ELSE TupleAfterValue(toks, parseValue(toks, pos), items)

\* parseTuple after this.expect(TokenType.LPAREN)
TupleAfterOpen(toks, open) ==
    IF open.err # NoError THEN open
    ELSE IF peekType(toks, open.pos) = "RPAREN"
    THEN Parsed(NoError, open.pos + 1, Array(<<>>))
    ELSE TupleLoop(toks, open.pos, <<>>)

parseTuple(toks, pos) == TupleAfterOpen(toks, expect(toks, pos, "LPAREN"))

\* A parse that steps over the EOF token it finds after the value.
ParseEndConsumingEof(toks, r) ==
    IF r.err # NoError THEN r
    ELSE IF peekType(toks, r.pos) # "EOF" THEN UnexpectedToken(toks, r.pos)
    ELSE Parsed(NoError, r.pos + 1, r.val)

\* parse() after const result = this.parseValue(): EOF must follow
ParseEnd(toks, r) ==
    IF r.err # NoError THEN r
    ELSE IF peekType(toks, r.pos) # "EOF" THEN UnexpectedToken(toks, r.pos)
    ELSE r

\* parse(): one value, then EOF
parse(toks) == ParseEnd(toks, parseValue(toks, 0))

(***************************************************************************)
(* JSON.stringify(value, null, indent)                                     *)
(***************************************************************************)

HexSeq == <<"0", "1", "2", "3", "4", "5", "6", "7", "8", "9", "a", "b", "c", "d", "e", "f">>

\* \uXXXX, in lower-case hexadecimal
UnicodeEscape(n) ==
    <<"\\", "u", HexSeq[((n \div 4096) % 16) + 1], HexSeq[((n \div 256) % 16) + 1],
      HexSeq[((n \div 16) % 16) + 1], HexSeq[(n % 16) + 1]>>

ControlCodes == 0 .. 31

LeadSurrogates == {CodeUnit(n) : n \in 55296 .. 56319}

TrailSurrogates == {CodeUnit(n) : n \in 56320 .. 57343}

RECURSIVE QuoteFrom(_, _)
\* QuoteJSONString, from the character at index i, without the enclosing quotes
QuoteFrom(s, i) ==
    IF i > Len(s) THEN <<>>
    ELSE LET ch == s[i]
             paired == \/ ch \in LeadSurrogates /\ i < Len(s) /\ s[i + 1] \in TrailSurrogates
                       \/ ch \in TrailSurrogates /\ i > 1 /\ s[i - 1] \in LeadSurrogates
             one == CASE ch = "\"" -> <<"\\", "\"">>
                      [] ch = "\\" -> <<"\\", "\\">>
                      [] ch = "\n" -> <<"\\", "n">>
                      [] ch = "\r" -> <<"\\", "r">>
                      [] ch = "\t" -> <<"\\", "t">>
                      [] ch = "\f" -> <<"\\", "f">>
                      [] ch = CodeUnit(8) -> <<"\\", "b">>
                      [] \E n \in ControlCodes : CodeUnit(n) = ch ->
                            UnicodeEscape(CHOOSE n \in ControlCodes : CodeUnit(n) = ch)
                      [] ch \in LeadSurrogates \cup TrailSurrogates /\ ~paired ->
                            UnicodeEscape(CHOOSE n \in 55296 .. 57343 : CodeUnit(n) = ch)
                      [] OTHER -> <<ch>>
         IN  one \o QuoteFrom(s, i + 1)

Quote(s) == <<"\"">> \o QuoteFrom(s, 1) \o <<"\"">>

MaxGap == 10

\* The gap of JSON.stringify for a numeric space argument: that many spaces, at most 10.
Gap(space) == Repeat(" ", IF space > MaxGap THEN MaxGap ELSE space)

RECURSIVE Join(_, _)
\* The texts of parts, with sep between them
Join(parts, sep) ==
    IF parts = <<>> THEN <<>>
    ELSE IF Len(parts) = 1 THEN parts[1]
    ELSE parts[1] \o sep \o Join(Tail(parts), sep)

\* '[' or '{', the members, ']' or '}', as SerializeJSONArray and SerializeJSONObject
\* lay them out
Wrap(open, parts, close, gap, stepback) ==
    IF parts = <<>> THEN <<open, close>>
    ELSE IF gap = <<>> THEN <<open>> \o Join(parts, <<",">>) \o <<close>>
    ELSE <<open, "\n">> \o stepback \o gap
            \o Join(parts, <<",", "\n">> \o stepback \o gap)
            \o <<"\n">> \o stepback \o <<close>>

RECURSIVE Serialize(_, _, _), SerializeItems(_, _, _, _)
\* SerializeJSONProperty of a value, at the indentation cur
Serialize(v, gap, cur) ==
    CASE v.t = "null" -> NullText
      [] v.t = "bool" -> IF v.b THEN <<"t", "r", "u", "e">> ELSE <<"f", "a", "l", "s", "e">>
      [] v.t = "number" -> IF v.num.nan \/ v.num.inf THEN NullText ELSE NumberToString(v.num)
      [] v.t = "string" -> Quote(v.s)
      [] v.t = "array" ->
            Wrap("[", SerializeItems(v, gap, cur \o gap, 1), "]", gap, cur)
      [] v.t = "object" ->
            Wrap("{", SerializeItems(v, gap, cur \o gap, 1), "}", gap, cur)

\* The serialized members of an array or object from the i-th on, each object member
\* after its quoted key and a colon.
SerializeItems(v, gap, cur, i) ==
    IF i > Len(v.items) THEN <<>>
    ELSE LET key == IF v.t = "object"
                    THEN Quote(v.keys[i]) \o <<":">> \o (IF gap = <<>> THEN <<>> ELSE <<" ">>)
                    ELSE <<>>
         IN  <<key \o Serialize(v.items[i], gap, cur)>> \o SerializeItems(v, gap, cur, i + 1)

JSONstringify(value, space) == Serialize(value, Gap(space), <<>>)

(***************************************************************************)
(* JSON.parse                                                              *)
(***************************************************************************)

JsonWhiteSpace == {" ", "\t", "\n", "\r"}

HexDigits == HexDigitOrUnderscore \ {"_"}

\* SyntaxError at offset p
JsonFail(p) == Parsed(Err("JsonSyntaxError", p, "", ""), p, Undefined)

\* true, false or null at offset p
JsonLiteral(s, p, word, val) ==
    IF p + Len(word) <= Len(s) /\ SubSeq(s, p + 1, p + Len(word)) = word
    THEN Parsed(NoError, p + Len(word), val)
    ELSE JsonFail(p)

\* The number s[p..end)
JsonNumberAt(s, p, end) == Parsed(NoError, end, NumberValue(Number(SubSeq(s, p + 1, end))))

\* exp: [eE] [+-]? [0-9]+, with the first digit expected at offset q
JsonExponentDigits(s, p, q) ==
    IF peek(s, q) \in Digits THEN JsonNumberAt(s, p, SkipWhile(s, q, Digits)) ELSE JsonFail(q)

JsonExponent(s, p, q) ==
    IF peek(s, q) \notin {"e", "E"} THEN JsonNumberAt(s, p, q)
    ELSE IF peek(s, q + 1) \in {"+", "-"} THEN JsonExponentDigits(s, p, q + 2)
    ELSE JsonExponentDigits(s, p, q + 1)

\* frac: '.' [0-9]+
JsonFraction(s, p, q) ==
    IF peek(s, q) # "." THEN JsonExponent(s, p, q)
    ELSE IF peek(s, q + 1) \in Digits THEN JsonExponent(s, p, SkipWhile(s, q + 1, Digits))
    ELSE JsonFail(q + 1)

\* int: 0 or a digit from 1 to 9 and digits
JsonInteger(s, p, q) ==
    IF peek(s, q) = "0" THEN JsonFraction(s, p, q + 1)
    ELSE IF peek(s, q) \in Digits THEN JsonFraction(s, p, SkipWhile(s, q, Digits))
    ELSE JsonFail(q)

\* number: '-'? int frac? exp?
JsonNumber(s, p) == JsonInteger(s, p, IF peek(s, p) = "-" THEN p + 1 ELSE p)

\* The character an escape \c stands for, "" when there is no such escape
JsonEscaped(c) ==
    CASE c \in {"\"", "\\", "/"} -> c
      [] c = "b" -> CodeUnit(8)
      [] c = "f" -> "\f"
      [] c = "n" -> "\n"
      [] c = "r" -> "\r"
      [] c = "t" -> "\t"
      [] OTHER -> ""

RECURSIVE JsonChars(_, _, _)
\* The characters of a string up to its closing quote, from offset p, after acc
JsonChars(s, p, acc) ==
    IF p >= Len(s) THEN JsonFail(p)
    ELSE IF At(s, p) = "\"" THEN Parsed(NoError, p + 1, String(acc))
    ELSE IF At(s, p) \in {CodeUnit(n) : n \in ControlCodes} THEN JsonFail(p)
    ELSE IF At(s, p) # "\\" THEN JsonChars(s, p + 1, Append(acc, At(s, p)))
    ELSE IF peek(s, p + 1) = "u"
    THEN IF p + 6 <= Len(s) /\ \A i \in p + 2 .. p + 5 : At(s, i) \in HexDigits
         THEN JsonChars(s, p + 6,
                        Append(acc, CodeUnit(RadixPrefixValue(SubSeq(s, p + 3, p + 6), 1, 16, 0))))
         ELSE JsonFail(p + 2)
    ELSE IF JsonEscaped(peek(s, p + 1)) # ""
    THEN JsonChars(s, p + 2, Append(acc, JsonEscaped(peek(s, p + 1))))
    ELSE JsonFail(p + 1)

RECURSIVE JsonValue(_, _), JsonElements(_, _, _), JsonMembers(_, _, _)

\* An array after one more element v: ',' and the next element, or ']'
JsonAfterElement(s, v, q, items) ==
    IF v.err # NoError THEN v
    ELSE IF peek(s, q) = "," THEN JsonElements(s, q + 1, Append(items, v.val))
    ELSE IF peek(s, q) = "]" THEN Parsed(NoError, q + 1, Array(Append(items, v.val)))
    ELSE JsonFail(q)

JsonElement(s, v, items) ==
    JsonAfterElement(s, v, SkipWhile(s, v.pos, JsonWhiteSpace), items)

\* The elements of an array from offset p, after items
JsonElements(s, p, items) == JsonElement(s, JsonValue(s, p), items)

\* An object after one more member k : v
JsonAfterMember(s, k, v, q, obj) ==
    IF v.err # NoError THEN v
    ELSE IF peek(s, q) = "," THEN JsonMembers(s, q + 1, DefineProperty(obj, k.val.s, v.val))
    ELSE IF peek(s, q) = "}"
    THEN Parsed(NoError, q + 1, DefineProperty(obj, k.val.s, v.val))
    ELSE JsonFail(q)

JsonMemberValue(s, k, v, obj) ==
    JsonAfterMember(s, k, v, SkipWhile(s, v.pos, JsonWhiteSpace), obj)

\* An object member after its key k: ':' at offset q, and the value
JsonAfterKey(s, k, q, obj) ==
    IF k.err # NoError THEN k
    ELSE IF peek(s, q) # ":" THEN JsonFail(q)
    ELSE JsonMemberValue(s, k, JsonValue(s, q + 1), obj)

JsonMemberKey(s, k, obj) == JsonAfterKey(s, k, SkipWhile(s, k.pos, JsonWhiteSpace), obj)

JsonMemberAt(s, q, obj) ==
    IF peek(s, q) # "\"" THEN JsonFail(q)
    ELSE JsonMemberKey(s, JsonChars(s, q + 1, <<>>), obj)

\* The members of an object from offset p, after those of obj
JsonMembers(s, p, obj) == JsonMemberAt(s, SkipWhile(s, p, JsonWhiteSpace), obj)

\* '[' at offset p, and the first character after it and white space at offset q
JsonArray(s, q) ==
    IF peek(s, q) = "]" THEN Parsed(NoError, q + 1, Array(<<>>))
    ELSE JsonElements(s, q, <<>>)

JsonObject(s, q) ==
    IF peek(s, q) = "}" THEN Parsed(NoError, q + 1, Object(<<>>, <<>>))
    ELSE JsonMembers(s, q, Object(<<>>, <<>>))

\* The value that starts at offset p
JsonValueAt(s, p) ==
    CASE peek(s, p) = "{" -> JsonObject(s, SkipWhile(s, p + 1, JsonWhiteSpace))
      [] peek(s, p) = "[" -> JsonArray(s, SkipWhile(s, p + 1, JsonWhiteSpace))
      [] peek(s, p) = "\"" -> JsonChars(s, p + 1, <<>>)
      [] peek(s, p) = "t" -> JsonLiteral(s, p, <<"t", "r", "u", "e">>, Bool(TRUE))
      [] peek(s, p) = "f" -> JsonLiteral(s, p, <<"f", "a", "l", "s", "e">>, Bool(FALSE))
      [] peek(s, p) = "n" -> JsonLiteral(s, p, NullText, Null)
      [] peek(s, p) \in Digits \cup {"-"} -> JsonNumber(s, p)
      [] OTHER -> JsonFail(p)

\* White space and a value, from offset p
JsonValue(s, p) == JsonValueAt(s, SkipWhile(s, p, JsonWhiteSpace))

\* After the value v, only white space may follow.
JsonEnd(s, v, q) ==
    IF v.err # NoError THEN v
    ELSE IF q < Len(s) THEN JsonFail(q)
    ELSE v

JsonText(s, v) == JsonEnd(s, v, SkipWhile(s, v.pos, JsonWhiteSpace))

\* JSON.parse(text): the value, or the SyntaxError thrown
JSONparse(text) == JsonText(text, JsonValue(text, 0))

(***************************************************************************)
(* pythonDictToJson                                                        *)
(***************************************************************************)

DefaultIndent == 4

Returned(err, out) == [err |-> err, out |-> out]

\* pythonDictToJson after parser.parse()
ConvertParsed(parsed, space) ==
    IF parsed.err # NoError THEN Returned(parsed.err, <<>>)
    ELSE Returned(NoError, JSONstringify(parsed.val, space))

\* pythonDictToJson after lexer.tokenize()
ConvertLexed(lexed, space) ==
    IF lexed.err # NoError THEN Returned(lexed.err, <<>>)
    ELSE ConvertParsed(parse(lexed.tokens), space)

\* pythonDictToJson after input.trim()
ConvertTrimmed(trimmed, space) ==
    IF trimmed = <<>> THEN Returned(Err("EmptyInput", NoPos, "", ""), <<>>)
    ELSE ConvertLexed(tokenize(trimmed), space)

\* pythonDictToJson(text, space): the JSON text returned, or the error thrown
pythonDictToJson(text, space) == ConvertTrimmed(trim(text), space)

\* JSON.stringify(parsed, null, space) of what JSON.parse returned
StringifyParsed(parsed, space) ==
    IF parsed.err # NoError THEN Returned(parsed.err, <<>>)
    ELSE Returned(NoError, JSONstringify(parsed.val, space))

\* formatJson(text, space)
formatJson(text, space) == StringifyParsed(JSONparse(text), space)

\* minifyJson(text): JSON.stringify(parsed), which has no gap
minifyJson(text) == StringifyParsed(JSONparse(text), 0)

(***************************************************************************)
(* One call of pythonDictToJson, step by step                              *)
(***************************************************************************)

\* The state before the call runs: nothing lexed, nothing parsed.
Idle ==
    /\ pc = "start"
    /\ lexInput = <<>>
    /\ lexPos = 0
    /\ tokens = <<>>
    /\ result = Undefined
    /\ output = <<>>
    /\ error = NoError

NoEditor ==
    /\ document = <<>>
    /\ selection = [start |-> 0, end |-> 0]
    /\ message = <<>>

\* const trimmed = input.trim(); if (!trimmed) throw ...; new PythonDictLexer(trimmed)
StartWith(trimmed) ==
    IF trimmed = <<>>
    THEN /\ pc' = "failed"
         /\ error' = Err("EmptyInput", NoPos, "", "")
         /\ UNCHANGED <<lexInput, lexPos>>
    ELSE /\ pc' = "lexing"
         /\ lexInput' = trimmed
         /\ lexPos' = 0
         /\ UNCHANGED error

Start ==
    /\ pc = "start"
    /\ StartWith(trim(input))
    /\ UNCHANGED <<input, indent, tokens, result, output>>
    /\ UNCHANGED editorVars

\* What one pass of the loop of tokenize leaves
LexStepWith(it) ==
    /\ lexPos' = it.pos
    /\ tokens' = IF it.kind = "error" THEN tokens ELSE Append(tokens, it.tok)
    /\ error' = it.err
    /\ pc' = CASE it.kind = "error" -> "failed"
               [] it.kind = "eof" -> "parsing"
               [] OTHER -> "lexing"

\* One pass of the loop of tokenize.
LexStep ==
    /\ pc = "lexing"
    /\ LexStepWith(tokenizeIter(lexInput, lexPos))
    /\ UNCHANGED <<input, indent, lexInput, result, output>>
    /\ UNCHANGED editorVars

\* What parse() leaves
ParseWith(r) ==
    /\ error' = r.err
    /\ result' = IF r.err = NoError THEN r.val ELSE result
    /\ pc' = IF r.err = NoError THEN "stringify" ELSE "failed"

\* new PythonDictParser(tokens).parse()
Parse ==
    /\ pc = "parsing"
    /\ ParseWith(parse(tokens))
    /\ UNCHANGED <<input, indent, lexInput, lexPos, tokens, output>>
    /\ UNCHANGED editorVars

\* return JSON.stringify(result, null, indent)
Stringify ==
    /\ pc = "stringify"
    /\ output' = JSONstringify(result, indent)
    /\ pc' = "done"
    /\ UNCHANGED <<input, indent, lexInput, lexPos, tokens, result, error>>
    /\ UNCHANGED editorVars

Next == Start \/ LexStep \/ Parse \/ Stringify

\* The bound on the length of the texts of Spec.
MaxLen == 4

Alphabet == {"-", "1", ".", "a", " ", "[", "]", "'", "#", "\n"}

Init ==
    /\ \E k \in 0 .. MaxLen : input \in [1 .. k -> Alphabet]
    /\ indent = DefaultIndent
    /\ Idle
    /\ NoEditor

Spec == Init /\ [][Next]_vars

\* A call of pythonDictToJson(text) with the default indent
Call(text) ==
    /\ input = text
    /\ indent = DefaultIndent
    /\ Idle
    /\ NoEditor

\* Calls on texts of quotes, backslashes and escape characters
MaxStrLen == 6

StrAlphabet == {"'", "\\", "x", "u", "1"}

InitStr == \E k \in 0 .. MaxStrLen : \E text \in [1 .. k -> StrAlphabet] : Call(text)

SpecStr == InitStr /\ [][Next]_vars

\* Calls on texts of the characters of numeric literals
MaxNumLen == 4

NumAlphabet == {"0", "1", "x", "b", "o", "e", "+", "_", ".", "-"}

InitNum == \E k \in 0 .. MaxNumLen : \E text \in [1 .. k -> NumAlphabet] : Call(text)

SpecNum == InitNum /\ [][Next]_vars

\* Calls on texts with white space, braces and strings
MaxWsLen == 5

WsAlphabet == {" ", "{", "}", "a", ":", "'", "\\"}

InitWs == \E k \in 0 .. MaxWsLen : \E text \in [1 .. k -> WsAlphabet] : Call(text)

SpecWs == InitWs /\ [][Next]_vars

\* Calls on texts of delimiters, separators, numbers and bare words
MaxGrammarLen == 5

GrammarAlphabet == {"[", "]", "{", "}", ")", ",", ":", "1", "e"}

InitGrammar ==
    \E k \in 0 .. MaxGrammarLen : \E text \in [1 .. k -> GrammarAlphabet] : Call(text)

SpecGrammar == InitGrammar /\ [][Next]_vars

\* Calls on dict literals of at most MaxEntries entries
MaxEntries == 3

\* The keys of the entries, as written
KeySources == {<<"'", "b", "'">>, <<"a">>, <<"2">>, <<"1">>, <<"'", "1", "'">>,
               <<"'">> \o ProtoKey \o <<"'">>}

\* The values of the entries, as written
ValueSources == {<<"0">>, <<"7">>}

\* key ': ' value of each entry, with ', ' between the entries
RECURSIVE RenderEntries(_, _)
RenderEntries(entries, i) ==
    IF i > Len(entries) THEN <<>>
    ELSE (IF i > 1 THEN <<",", " ">> ELSE <<>>)
            \o entries[i][1] \o <<":", " ">> \o entries[i][2]
            \o RenderEntries(entries, i + 1)

RenderDict(entries) == <<"{">> \o RenderEntries(entries, 1) \o <<"}">>

InitDict ==
    \E n \in 0 .. MaxEntries :
        \E entries \in [1 .. n -> KeySources \X ValueSources] : Call(RenderDict(entries))

SpecDict == InitDict /\ [][Next]_vars

\* Calls on texts of delimiters, commas, colons and a number
MaxCommaLen == 5

CommaAlphabet == {"[", "]", "(", ")", "{", "}", ",", ":", "1"}

InitComma ==
    \E k \in 0 .. MaxCommaLen : \E text \in [1 .. k -> CommaAlphabet] : Call(text)

SpecComma == InitComma /\ [][Next]_vars

(***************************************************************************)
(* The editor commands: dict2json.convert, dict2json.formatJson and         *)
(* dict2json.minifyJson                                                     *)
(*                                                                         *)
(* document is the text of the active editor, selection the offsets of its  *)
(* selection (empty when start = end), message the messages shown so far.   *)
(* A handler runs as one action; it leaves in input the text it read, in    *)
(* output the text the conversion returned, in error what it threw and in   *)
(* pc the name of the command.  editor.edit is taken to apply the edit: the *)
(* handler does not await between reading the text and making the edit.     *)
(***************************************************************************)

Selection(start, end) == [start |-> start, end |-> end]

\* selection.isEmpty
isEmpty(sel) == sel.start = sel.end

\* const text = selection.isEmpty ? document.getText() : document.getText(selection)
getText(doc, sel) == IF isEmpty(sel) THEN doc ELSE SubSeq(doc, sel.start + 1, sel.end)

\* A range that is the selection even when the selection is empty.
SelectionAsRange(doc, sel) == sel

\* The range of applyEdit: the whole document if the selection is empty, else the
\* selection
EditRange(doc, sel) == IF isEmpty(sel) THEN Selection(0, Len(doc)) ELSE sel

\* editBuilder.replace(range, newText)
replace(doc, range, newText) ==
    SubSeq(doc, 1, range.start) \o newText \o SubSeq(doc, range.end + 1, Len(doc))

\* vscode.window.show{Warning,Information,Error}Message
Shown(kind, text, err) == [kind |-> kind, text |-> text, err |-> err]

\* What the handler leaves of its call of the conversion function
Called(cmd, text, r) ==
    /\ pc' = cmd
    /\ input' = text
    /\ output' = r.out
    /\ error' = r.err

\* applyEdit(editor, selection, json).  The editor moves the selection with the edit:
\* it ends up on the new text, or collapsed at either end of it.
applyEdit(range, newText) ==
    /\ document' = replace(document, range, newText)
    /\ selection' \in {Selection(range.start, range.start + Len(newText)),
                       Selection(range.start + Len(newText), range.start + Len(newText)),
                       Selection(range.start, range.start)}

\* try { const json = f(text, indent); await applyEdit(editor, selection, json);
\*       showInformationMessage(...) } catch (err) { showErrorMessage(...) }
TryConvert(cmd, text, r) ==
    /\ Called(cmd, text, r)
    /\ IF r.err # NoError
       THEN /\ message' = Append(message, Shown("error", "Failed", r.err))
            /\ UNCHANGED <<document, selection>>
       ELSE /\ applyEdit(EditRange(document, selection), r.out)
            /\ message' = Append(message, Shown("info", "successfully", NoError))

\* if (!text.trim()) { showWarningMessage('No text to ...'); return; }
WithText(cmd, text, r) ==
    IF trim(text) = <<>>
    THEN /\ Called(cmd, text, Returned(NoError, <<>>))
         /\ message' = Append(message, Shown("warning", "No text", NoError))
         /\ UNCHANGED <<document, selection>>
    ELSE TryConvert(cmd, text, r)

\* if (!editor) { showWarningMessage('No active editor found.'); return; }
WithoutEditor(cmd) ==
    /\ Called(cmd, <<>>, Returned(NoError, <<>>))
    /\ message' = Append(message, Shown("warning", "No active editor found.", NoError))
    /\ UNCHANGED <<document, selection>>

\* The bound on the number of commands run in one behaviour.
MaxCommands == 2

\* The handler of a command, with or without an active editor
Command(cmd, text, r) ==
    /\ \E editor \in BOOLEAN : IF editor THEN WithText(cmd, text, r) ELSE WithoutEditor(cmd)
    /\ UNCHANGED <<indent, lexInput, lexPos, tokens, result>>

\* dict2json.convert
Convert ==
    /\ Len(message) < MaxCommands
    /\ Command("convert", getText(document, selection),
               pythonDictToJson(getText(document, selection), indent))

\* dict2json.formatJson
FormatJson ==
    /\ Len(message) < MaxCommands
    /\ Command("formatJson", getText(document, selection),
               formatJson(getText(document, selection), indent))

\* dict2json.minifyJson
MinifyJson ==
    /\ Len(message) < MaxCommands
    /\ Command("minifyJson", getText(document, selection),
               minifyJson(getText(document, selection)))

EditorNext == Convert \/ FormatJson \/ MinifyJson

\* The bound on the length of the documents the editor starts with.
MaxDocLen == 3

DocAlphabet == {"[", "]", "1", "0"}

\* The values of the dict2json.indentSize setting
IndentSizes == {2, DefaultIndent}

InitEditor ==
    /\ \E k \in 0 .. MaxDocLen :
          /\ document \in [1 .. k -> DocAlphabet]
          /\ \E a \in 0 .. k : \E b \in a .. k : selection = Selection(a, b)
    /\ message = <<>>
    /\ input = <<>>
    /\ indent \in IndentSizes
    /\ Idle

SpecEditor == InitEditor /\ [][EditorNext]_vars

(***************************************************************************)
(* Properties                                                              *)
(***************************************************************************)

\* Where the next pass of the loop of tokenize finds its character.
NextStart == skipWhitespaceAndComments(lexInput, lexPos)

\* The character at offset p of the lexer's input, "" past the end.
LexChar(p) == peek(lexInput, p)

LastToken == tokens[Len(tokens)]

\* C6: when tokenize returns, the token sequence holds exactly one EOF token, that
\* token is its last element, and its offset is the length of the lexer's input.
C6_SingleFinalEof ==
    pc = "parsing" =>
        /\ tokens # <<>>
        /\ LastToken.type = "EOF"
        /\ LastToken.pos = Len(lexInput)
        /\ \A i \in 1 .. Len(tokens) - 1 : tokens[i].type # "EOF"

\* tokenize has returned for an input that ends in a comment: EOF stands after the
\* comment, more than a character after the token before it.
C6_Witness ==
    /\ pc = "parsing"
    /\ Len(tokens) >= 2
    /\ LastToken.pos > tokens[Len(tokens) - 1].pos + 1
    /\ "#" \in Range(lexInput)

\* The lexer is about to scan a '-' that no digit follows.
AtMinusWithoutDigit ==
    /\ pc = "lexing"
    /\ LexChar(NextStart) = "-"
    /\ LexChar(NextStart + 1) \notin Digits

\* C7 as stated: a '-' that is not followed by a digit makes tokenize fail with the
\* "Invalid number" error.
C7_MinusIsInvalidNumber ==
    [][AtMinusWithoutDigit => pc' = "failed" /\ error'.kind = "InvalidNumber"]_vars

\* C7 as amended: a '-' followed by neither a digit nor '.' makes tokenize fail with
\* the "Unexpected character '-'" error at the offset of the '-'; a '-' followed by
\* '.' fails with the "Invalid number" error at that offset when no digit follows the
\* '.', and starts a NUMBER token at that offset when one does.
C7_MinusWithoutDigit ==
    [][AtMinusWithoutDigit =>
          IF LexChar(NextStart + 1) # "."
          THEN pc' = "failed" /\ error' = Err("UnexpectedCharacter", NextStart, "-", "")
          ELSE IF LexChar(NextStart + 2) \notin Digits
          THEN pc' = "failed" /\ error' = Err("InvalidNumber", NextStart, "", "")
          ELSE /\ pc' = "lexing"
               /\ Len(tokens') = Len(tokens) + 1
               /\ tokens'[Len(tokens')].type = "NUMBER"
               /\ tokens'[Len(tokens')].pos = NextStart
               /\ SubSeq(tokens'[Len(tokens')].value, 1, 2) = <<"-", ".">>]_vars

\* tokenize has failed on a '-' that followed a token: a '-' inside a list.
C7_Witness ==
    /\ pc = "failed"
    /\ error.kind = "UnexpectedCharacter"
    /\ error.ch = "-"
    /\ tokens # <<>>

Quotes == {"'", "\""}

\* The lexer is about to scan a string that opens with three identical quotes.
AtTripleQuoteOpening ==
    /\ pc = "lexing"
    /\ LexChar(NextStart) \in Quotes
    /\ LexChar(NextStart + 1) = LexChar(NextStart)
    /\ LexChar(NextStart + 2) = LexChar(NextStart)

\* Three consecutive characters q of the lexer's input start at offset i.
TripleQuoteAt(i, q) == LexChar(i) = q /\ LexChar(i + 1) = q /\ LexChar(i + 2) = q

\* No run of three quotes q starts after the opening run at offset start.
NoLaterTripleQuote(start, q) ==
    \A i \in start + 3 .. Len(lexInput) - 3 : ~TripleQuoteAt(i, q)

\* C8: a string that opens with three identical quotes and has no later run of three
\* matching quotes makes tokenize fail with the unterminated-triple-quoted-string
\* error, whose position is the offset of the first of the three opening quotes.
C8_UnterminatedTripleQuote ==
    [][AtTripleQuoteOpening /\ NoLaterTripleQuote(NextStart, LexChar(NextStart)) =>
          /\ pc' = "failed"
          /\ error' = Err("UnterminatedTripleQuotedString", NextStart, "", "")]_vars

\* The lexer is about to scan a string that does not open with three identical quotes.
AtStringOpening ==
    /\ pc = "lexing"
    /\ LexChar(NextStart) \in Quotes
    /\ ~TripleQuoteAt(NextStart, LexChar(NextStart))

\* The offset of the first q at or after offset p of s that no backslash directly
\* escapes, NoPos if there is none.
RECURSIVE ClosingQuote(_, _, _)
ClosingQuote(s, p, q) ==
    IF p >= Len(s) THEN NoPos
    ELSE IF At(s, p) = "\\" THEN ClosingQuote(s, p + 2, q)
    ELSE IF At(s, p) = q THEN p
    ELSE ClosingQuote(s, p + 1, q)

EscapeErrors == {"EndInEscape", "EndInUnicodeEscape", "EndInHexEscape"}

\* The pass of tokenize that starts at offset start either fails in an escape or pushes
\* a STRING token that ends with the character at offset close.
StringEndsAt(start, close) ==
    \/ pc' = "failed" /\ error'.kind \in EscapeErrors
    \/ /\ pc' = "lexing"
       /\ tokens' = Append(tokens, Token("STRING", tokens'[Len(tokens')].value, start))
       /\ lexPos' = close + 1

\* C10: a single-line string token ends at the first occurrence of its opening quote
\* that is not the character directly escaped by a backslash, unless an escape fails:
\* the quote is never consumed as part of the digits of a \x or \u escape.
C10_StringEndsAtFirstUnescapedQuote ==
    [][AtStringOpening /\ ClosingQuote(lexInput, NextStart + 1, LexChar(NextStart)) # NoPos =>
          StringEndsAt(NextStart, ClosingQuote(lexInput, NextStart + 1, LexChar(NextStart)))]_vars

\* C9: every NUMBER token that tokenize emits has a text that Number() parses, so
\* parseNumber never throws its "Invalid number" error.
C9_NumberTokensParse ==
    /\ \A i \in DOMAIN tokens : tokens[i].type = "NUMBER" => ~isNaN(Number(tokens[i].value))
    /\ error.kind # "InvalidNumberValue"

\* The characters a token of the given type can start with.
FirstChars(type) ==
    CASE type = "LBRACE" -> {"{"}
      [] type = "RBRACE" -> {"}"}
      [] type = "LBRACKET" -> {"["}
      [] type = "RBRACKET" -> {"]"}
      [] type = "LPAREN" -> {"("}
      [] type = "RPAREN" -> {")"}
      [] type = "COLON" -> {":"}
      [] type = "COMMA" -> {","}
      [] type = "NUMBER" -> Digits \cup {"-"}
      [] type = "EOF" -> {""}
      [] OTHER -> Quotes \cup IdentStart

ParseErrors == {"UnexpectedToken", "Expected", "InvalidDictKey", "InvalidNumberValue"}

\* The offset the error carries is, in the text given to the call, the offset of the
\* character the message names or of the first character of the token it names.
OffendingAt(text, err) ==
    CASE err.kind = "UnexpectedCharacter" -> peek(text, err.pos) = err.ch
      [] err.kind \in ParseErrors -> peek(text, err.pos) \in FirstChars(err.ch)
      [] OTHER -> TRUE

\* C2: every lex or parse error of pythonDictToJson(text) carries the zero-based offset,
\* in the text given to the call, of the offending character or token; the same text
\* after one more white space character reports an offset larger by one.
C2_OffsetInOriginalText ==
    pc = "failed" /\ error.kind # "EmptyInput" =>
        /\ error.pos # NoPos
        /\ OffendingAt(input, error)
        /\ pythonDictToJson(<<" ">> \o input, indent).err.pos = error.pos + 1

\* The types of the tokens before EOF.
TypesBeforeEof == [i \in 1 .. Len(tokens) - 1 |-> tokens[i].type]

KeyTypes == {"STRING", "NUMBER", "TRUE", "FALSE", "NONE"}

RECURSIVE IsValue(_, _, _), IsItems(_, _, _, _)

\* ts[i..j] is one key ':' value (inDict) or one value.
IsItem(ts, i, j, inDict) ==
    IF inDict
    THEN j >= i + 2 /\ ts[i] \in KeyTypes /\ ts[i + 1] = "COLON" /\ IsValue(ts, i + 2, j)
    ELSE IsValue(ts, i, j)

\* ts[i..j] is item (',' item)*
IsItems(ts, i, j, inDict) ==
    \/ IsItem(ts, i, j, inDict)
    \/ \E k \in i + 1 .. j - 1 :
          ts[k] = "COMMA" /\ IsItem(ts, i, k - 1, inDict) /\ IsItems(ts, k + 1, j, inDict)

\* ts[i..j] is (item (',' item)* ','?)?
IsBody(ts, i, j, inDict) ==
    \/ i > j
    \/ IsItems(ts, i, j, inDict)
    \/ j > i /\ ts[j] = "COMMA" /\ IsItems(ts, i, j - 1, inDict)

\* ts[i..j] is a derivation of value:
\*   value := dict | list | tuple | STRING | NUMBER | TRUE | FALSE | NONE
IsValue(ts, i, j) ==
    /\ i <= j
    /\ \/ i = j /\ ts[i] \in KeyTypes
       \/ i < j /\ ts[i] = "LBRACE" /\ ts[j] = "RBRACE" /\ IsBody(ts, i + 1, j - 1, TRUE)
       \/ i < j /\ ts[i] = "LBRACKET" /\ ts[j] = "RBRACKET" /\ IsBody(ts, i + 1, j - 1, FALSE)
       \/ i < j /\ ts[i] = "LPAREN" /\ ts[j] = "RPAREN" /\ IsBody(ts, i + 1, j - 1, FALSE)

\* tokenize has returned and parse has run on its tokens.
ParseRan ==
    /\ pc \in {"stringify", "done", "failed"}
    /\ tokens # <<>>
    /\ LastToken.type = "EOF"

\* C3: on the tokens of tokenize, parse succeeds if and only if the tokens before EOF
\* are one derivation of value in the grammar.
C3_ParseIffDerivation ==
    ParseRan => (pc # "failed" <=> IsValue(TypesBeforeEof, 1, Len(tokens) - 1))


\* The tokens are those of a dict literal whose values are single tokens:
\* '{' (key ':' value (',' key ':' value)*)? '}' EOF
EntryCount == (Len(tokens) - 2) \div 4

\* The text of the key of the i-th entry
KeyText(i) == tokens[4 * i - 2].value

\* The entries whose key text occurs in no earlier entry, in source order
FirstOccurrences == SelectSeq([i \in 1 .. EntryCount |-> i],
                              LAMBDA i : \A j \in 1 .. i - 1 : KeyText(j) # KeyText(i))

\* The last entry with the key text of the i-th
LastEntry(i) ==
    CHOOSE j \in i .. EntryCount :
        /\ KeyText(j) = KeyText(i)
        /\ \A k \in j + 1 .. EntryCount : KeyText(k) # KeyText(i)

\* The object with the distinct key texts in the order of their first occurrence, each
\* with the value of its last occurrence
KeysInSourceOrder ==
    Object([n \in 1 .. Len(FirstOccurrences) |-> KeyText(FirstOccurrences[n])],
           [n \in 1 .. Len(FirstOccurrences) |->
               NumberValue(Number(tokens[4 * LastEntry(FirstOccurrences[n])].value))])

\* C1: the keys of the emitted JSON object appear in the order in which each distinct
\* key text first occurs in the source, and a later duplicate key replaces the earlier
\* value without moving the key, whatever the kind of key.
C1_KeysInSourceOrder ==
    pc = "done" => output = JSONstringify(KeysInSourceOrder, indent)


OpeningTypes == {"LBRACE", "LBRACKET", "LPAREN"}

ClosingTypes == {"RBRACE", "RBRACKET", "RPAREN"}

\* The text s with a comma put before the character at offset p
InsertCommaAt(s, p) == SubSeq(s, 1, p) \o <<",">> \o SubSeq(s, p + 1, Len(s))

\* What parse returns, or what tokenize or parse throws, for the tokens of a text
ValueOfLexed(lexed) ==
    IF lexed.err # NoError THEN Parsed(lexed.err, 0, Undefined) ELSE parse(lexed.tokens)

ValueOfText(text) == ValueOfLexed(tokenize(text))

\* The text is accepted with the value tree and the output of the finished call.
SameAsThisCall(text) ==
    /\ ValueOfText(text).err = NoError
    /\ ValueOfText(text).val = result
    /\ pythonDictToJson(text, indent) = Returned(NoError, output)

\* The i-th token closes a non-empty dict, list or tuple.
ClosesNonEmpty(i) ==
    /\ i > 1
    /\ tokens[i].type \in ClosingTypes
    /\ tokens[i - 1].type \notin OpeningTypes

\* C4 as stated: for every non-empty dict, list or tuple literal of an accepted text,
\* the text with one comma put immediately before the closing delimiter of the literal
\* is accepted too, with the same value tree and the same output.
C4_CommaBeforeAnyClose ==
    pc = "done" =>
        \A i \in DOMAIN tokens :
            ClosesNonEmpty(i) => SameAsThisCall(InsertCommaAt(lexInput, tokens[i].pos))

\* C4 as amended: the same, for the literals whose closing delimiter does not already
\* follow a comma.
C4_OneTrailingComma ==
    pc = "done" =>
        \A i \in DOMAIN tokens :
            ClosesNonEmpty(i) /\ tokens[i - 1].type # "COMMA" =>
                SameAsThisCall(InsertCommaAt(lexInput, tokens[i].pos))

\* An accepted text with a non-empty tuple inside a list: the comma goes before the
\* closing delimiter of the inner literal.
C4_Witness ==
    /\ pc = "done"
    /\ \E i \in 2 .. Len(tokens) - 1 :
          /\ tokens[i].type = "RPAREN"
          /\ tokens[i - 1].type = "NUMBER"
          /\ tokens[i + 1].type = "RBRACKET"
          /\ SameAsThisCall(InsertCommaAt(lexInput, tokens[i].pos))


\* The message the command that has just run has shown.
LastShown == message'[Len(message')]

\* A command has run and has called its conversion function.
ConversionCalled == Len(message') = Len(message) + 1 /\ LastShown.kind # "warning"

\* The range the handler read its text from: the selection if it is not empty,
\* otherwise the whole document.
RangeRead ==
    IF selection.start # selection.end THEN selection ELSE [start |-> 0, end |-> Len(document)]

\* C5: in the three command handlers, when the conversion function throws the document
\* is unchanged and an error message is shown; when it returns, the range the text was
\* read from is replaced by the returned text and the rest of the document is unchanged.
C5_EditOnlyOnSuccess ==
    [][ConversionCalled =>
          /\ input' = SubSeq(document, RangeRead.start + 1, RangeRead.end)
          /\ IF error' # NoError
             THEN document' = document /\ LastShown.kind = "error"
             ELSE /\ LastShown.kind = "info"
                  /\ document' = SubSeq(document, 1, RangeRead.start) \o output'
                                    \o SubSeq(document, RangeRead.end + 1, Len(document))]_vars

\* A command has failed and left the document as it was, and the next command has
\* replaced a selection inside a longer document.
C5_Witness ==
    /\ Len(message) = MaxCommands
    /\ message[1].kind = "error"
    /\ message[2].kind = "info"
    /\ Len(output) < Len(document)

\* The pass of the loop of tokenize throws: no token is pushed.
PassThrows == pc' = "failed" /\ tokens' = tokens /\ lexPos' >= lexPos

\* The pass pushes EOF and tokenize returns.
PassEnds ==
    /\ pc' = "parsing"
    /\ Len(tokens') = Len(tokens) + 1
    /\ tokens'[Len(tokens')].type = "EOF"
    /\ lexPos' >= lexPos

\* The pass pushes one token, past the tokens before it, and leaves the scan position
\* at least one character further, within the input.
PassAdvances ==
    /\ pc' = "lexing"
    /\ Len(tokens') = Len(tokens) + 1
    /\ SubSeq(tokens', 1, Len(tokens)) = tokens
    /\ tokens'[Len(tokens')].type # "EOF"
    /\ tokens # <<>> => tokens'[Len(tokens')].pos > LastToken.pos
    /\ lexPos' > lexPos
    /\ lexPos' <= Len(lexInput)

\* C11: every pass of the loop of tokenize throws, or pushes EOF and stops, or pushes
\* one token after moving the scan position forward by at least one character, so the
\* scan position never decreases and the offsets of the tokens increase strictly.  The
\* scan position stays within the input, so tokenize makes at most one pass for each
\* character of its input and one more: it terminates.
C11_TokenizeTerminates ==
    [][pc = "lexing" => PassThrows \/ PassEnds \/ PassAdvances]_vars

\* tokenize has returned after pushing three tokens and EOF.
C11_Witness ==
    /\ pc = "parsing"
    /\ Len(tokens) = 4
    /\ tokens[3].pos > tokens[2].pos
    /\ tokens[2].pos > tokens[1].pos


\* The pass of tokenize that starts at a '-' pushes a NUMBER token.
MinusLiteralAccepted ==
    /\ pc = "lexing"
    /\ LexChar(NextStart) = "-"
    /\ pc' = "lexing"
    /\ Len(tokens') = Len(tokens) + 1
    /\ tokens'[Len(tokens')].type = "NUMBER"

\* -num
Negated(num) == IF num.nan THEN num ELSE [num EXCEPT !.neg = ~num.neg]

\* The text of the NUMBER token of the literal that starts at offset p of the lexer's
\* input.
NumberTextAt(p) == readNumber(lexInput, p).value

\* C12: for every numeric literal that begins with '-' and that tokenize accepts, the
\* text of the NUMBER token begins with '-' and the parsed Number is the negation of
\* the Number of the same literal without the '-', base-prefixed literals included.
C12_SignPreserved ==
    [][MinusLiteralAccepted =>
          /\ Head(tokens'[Len(tokens')].value) = "-"
          /\ Number(tokens'[Len(tokens')].value) = Negated(Number(NumberTextAt(NextStart + 1)))]_vars


\* PythonDictParser.pos when parse returns or throws.  The parser only ever increments
\* pos, so this is the largest index it has had on the way.
ParserPos == parse(tokens).pos

\* C13: during parse of the tokens that tokenize returned, the index of the parser stays
\* within 0 .. len(tokens) - 1, on successful and on failing parses: the EOF token is
\* never consumed (a successful parse ends on it) and current() never reads past the
\* end of the tokens.
C13_ParserIndexInBounds ==
    tokens # <<>> /\ LastToken.type = "EOF" =>
        /\ ParserPos \in 0 .. Len(tokens) - 1
        /\ parse(tokens).err = NoError => ParserPos = Len(tokens) - 1

\* parse has failed on the EOF token, with its index on the last token, after
\* consuming the tokens before it.
C13_Witness ==
    /\ ParseRan
    /\ pc = "failed"
    /\ error.ch = "EOF"
    /\ Len(tokens) >= 3
    /\ ParserPos = Len(tokens) - 1


====
